---- MODULE Spec2Model ----
(***************************************************************************)
(* Model of Curriculos.py (Talent Hunter Pro): one run of main().  A       *)
(* folder of resume files is listed, each .pdf/.docx file is extracted,    *)
(* scored against the job keywords, filtered by two thresholds, and the    *)
(* surviving entries are sorted by score and displayed.                    *)
(*                                                                         *)
(* Python strings are modelled as sequences of one-character strings.      *)
(* Similarity scores are integers in units of 1/ScoreOne.                  *)
(***************************************************************************)
EXTENDS Integers, Sequences, FiniteSets, TLC

(* ------------------------------ bounds -------------------------------- *)
\* longest directory listing explored
MaxFiles == 3
\* the value that stands for the score 1.0 (resolution of the score grid)
ScoreOne == 2
\* longest job description explored by the keyword specification
MaxDescLen == 8

(* -------------------------- program constants -------------------------- *)
\* r'\w{4,}' and len(word) > 3
MinWordLen == 4
\* st.sidebar.slider("Minimo de correspondencias", 0, 20, 2)
MaxMinMatches == 20

(* ------------------------------ strings -------------------------------- *)
\* characters removed by str.strip() / matched by str.split()
IsSpace(c) == c \in {" ", "\n"}

\* characters matched by the regular expression class \w
IsWord(c) == c \in {"a", "b", "d", "e", "j", "l", "o", "p", "q", "s", "v",
                    "B", "J", "_", "1"}

\* str.lower() on one character
LowerChar(c) ==
    CASE c = "P" -> "p"
      [] c = "D" -> "d"
      [] c = "F" -> "f"
      [] c = "O" -> "o"
      [] c = "C" -> "c"
      [] c = "X" -> "x"
      [] c = "B" -> "b"
      [] c = "J" -> "j"
      [] OTHER -> c

\* str.lower()
Lower(s) == [k \in 1..Len(s) |-> LowerChar(s[k])]

\* str.endswith(suffix)
EndsWith(s, suf) ==
    /\ Len(s) >= Len(suf)
    /\ SubSeq(s, Len(s) - Len(suf) + 1, Len(s)) = suf

\* the operator `in` on strings: kw occurs as a substring of s
Contains(s, kw) ==
    \E p \in 0..(Len(s) - Len(kw)) : SubSeq(s, p + 1, p + Len(kw)) = kw

\* str.strip(): drop leading and trailing whitespace
Strip(s) ==
    LET nonws == {k \in 1..Len(s) : ~IsSpace(s[k])}
    IN  IF nonws = {} THEN <<>>
        ELSE LET lo == CHOOSE k \in nonws : \A m \in nonws : k <= m
                 hi == CHOOSE k \in nonws : \A m \in nonws : k >= m
             IN  SubSeq(s, lo, hi)

\* "\n".join(parts)
RECURSIVE Join(_)
Join(parts) ==
    IF parts = <<>> THEN <<>>
    ELSE IF Len(parts) = 1 THEN parts[1]
    ELSE parts[1] \o <<"\n">> \o Join(Tail(parts))

(* --------------------------- job keywords ------------------------------ *)
\* last index of the maximal run of \w characters that starts at p
RunEnd(s, p) ==
    CHOOSE e \in p..Len(s) :
        /\ \A k \in p..e : IsWord(s[k])
        /\ (e = Len(s) \/ ~IsWord(s[e + 1]))

\* re.findall(r'\w{4,}', s) scanning from position p: leftmost match, greedy,
\* then resume right after the match; on failure retry one character later
RECURSIVE FindAllFrom(_, _)
FindAllFrom(s, p) ==
    IF p > Len(s) THEN <<>>
    ELSE IF /\ p + MinWordLen - 1 <= Len(s)
            /\ \A k \in p..(p + MinWordLen - 1) : IsWord(s[k])
         THEN <<SubSeq(s, p, RunEnd(s, p))>> \o FindAllFrom(s, RunEnd(s, p) + 1)
         ELSE FindAllFrom(s, p + 1)

\* re.findall(r'\w{4,}', job_desc)
FindAll(s) == FindAllFrom(s, 1)

\* variant: the description is lower-cased before the words are taken
JobKeywordsLowered(title, desc) ==
    <<title>> \o SelectSeq(FindAll(Lower(desc)), LAMBDA w : Len(w) > 3)

\* job_keywords = [job_title] + [word for word in findall(...) if len(word) > 3]
JobKeywords(title, desc) ==
    <<title>> \o SelectSeq(FindAll(desc), LAMBDA w : Len(w) > 3)

(* --------------------------- the file system --------------------------- *)
Dev == <<"d", "e", "v">>
Java == <<"j", "a", "v", "a">>
Sql == <<"s", "q", "l">>
Sp == <<" ">>

\* a page / paragraph: extract_text() may return None, p.text is a string
Part(t) == [none |-> FALSE, text |-> t]
NonePart == [none |-> TRUE, text |-> <<>>]

\* The files a resume folder may hold.  broken: opening/parsing the file
\* raises.  score: the cosine similarity the embedding model gives the
\* file's text (an output of the pretrained model, fixed for the run).
Catalog ==
    <<  [name |-> <<"a", ".", "p", "d", "f">>, broken |-> FALSE,
         parts |-> <<Part(Dev \o Sp \o Dev \o Sp \o Dev)>>, score |-> 2],
        [name |-> <<"b", ".", "P", "D", "F">>, broken |-> FALSE,
         parts |-> <<Part(Java), NonePart, Part(Dev)>>, score |-> 2],
        [name |-> <<"c", ".", "d", "o", "c", "x">>, broken |-> FALSE,
         parts |-> <<Part(Sp \o Dev \o Sp \o Java), Part(Sp), Part(Sql \o Sp)>>,
         score |-> 1],
        [name |-> <<"d", ".", "p", "d", "f">>, broken |-> FALSE,
         parts |-> <<Part(Sp \o Sp), NonePart>>, score |-> 2],
        [name |-> <<"e", ".", "d", "o", "c", "x">>, broken |-> TRUE,
         parts |-> <<Part(Dev \o Sp \o Java)>>, score |-> 2],
        [name |-> <<"f", ".", "t", "x", "t">>, broken |-> FALSE,
         parts |-> <<Part(Dev \o Sp \o Java)>>, score |-> 2],
        [name |-> <<"g", ".", "D", "o", "c", "x">>, broken |-> FALSE,
         parts |-> <<Part(Sp), Part(<<>>)>>, score |-> 2]  >>

FileIds == 1..Len(Catalog)

\* the existing folder and a path that does not exist
Folder == "/cv"
Missing == "/missing"

\* os.path.exists(path)
PathExists(path) == path = Folder

(* ------------------------------ extraction ----------------------------- *)
\* page.extract_text() or ""
OrEmpty(part) == IF part.none THEN <<>> ELSE part.text

\* the text read from the document, before the truthiness test:
\* pdf:  "\n".join([page.extract_text() or "" for page in pdf.pages])
\* docx: "\n".join([p.text for p in doc.paragraphs if p.text.strip()])
RawText(f, file_type) ==
    IF file_type = "pdf"
    THEN Join([k \in 1..Len(f.parts) |-> OrEmpty(f.parts[k])])
    ELSE Join([k \in 1..Len(SelectSeq(f.parts, LAMBDA q : Strip(q.text) # <<>>))
                 |-> SelectSeq(f.parts, LAMBDA q : Strip(q.text) # <<>>)[k].text])

\* variant: return text  instead of  return text.strip()
process_file_NoStrip(f, file_type, tok_ok) ==
    IF f.broken THEN [text |-> <<>>, warned |-> TRUE]
    ELSE IF RawText(f, file_type) # <<>>
         THEN IF tok_ok
              THEN [text |-> RawText(f, file_type), warned |-> FALSE]
              ELSE [text |-> <<>>, warned |-> TRUE]
         ELSE [text |-> <<>>, warned |-> FALSE]

\* variant: the except branch returns the error text  return str(e)
process_file_ErrorText(f, file_type, tok_ok) ==
    IF f.broken THEN [text |-> <<"e">>, warned |-> TRUE]
    ELSE IF RawText(f, file_type) # <<>>
         THEN IF tok_ok
              THEN [text |-> Strip(RawText(f, file_type)), warned |-> FALSE]
              ELSE [text |-> <<"e">>, warned |-> TRUE]
         ELSE [text |-> <<>>, warned |-> FALSE]

\* process_file(file_path, file_type): the returned text and whether the
\* except branch ran (a warning is shown).  tok_ok: word_tokenize works.
process_file(f, file_type, tok_ok) ==
    IF f.broken THEN [text |-> <<>>, warned |-> TRUE]
    ELSE IF RawText(f, file_type) # <<>>
         THEN IF tok_ok
              THEN [text |-> Strip(RawText(f, file_type)), warned |-> FALSE]
              ELSE [text |-> <<>>, warned |-> TRUE]
         ELSE [text |-> <<>>, warned |-> FALSE]

(* ------------------------------- scoring ------------------------------- *)
\* matches = sum(1 for keyword in job_keywords if keyword in text)
Matches(text, kws) == Cardinality({k \in 1..Len(kws) : Contains(text, kws[k])})

\* analyze_resume(text, job_keywords) when model.encode does not raise
analyze_resume(f, text, kws) == [matches |-> Matches(text, kws), score |-> f.score]

(* ------------------------------- sorting ------------------------------- *)
\* variant: an unstable sort, e goes in front of the entries with its key
InsertDescUnstable(t, e) ==
    LET n == Cardinality({k \in 1..Len(t) : t[k].Score > e.Score})
    IN  SubSeq(t, 1, n) \o <<e>> \o SubSeq(t, n + 1, Len(t))

\* put e into the descending list t behind every entry whose key is >= its own
InsertDesc(t, e) ==
    LET n == Cardinality({k \in 1..Len(t) : t[k].Score >= e.Score})
    IN  SubSeq(t, 1, n) \o <<e>> \o SubSeq(t, n + 1, Len(t))

\* sorted(results, key=lambda x: x['Score'], reverse=True): a stable sort,
\* entries with equal keys keep their order
RECURSIVE SortedByScore(_)
SortedByScore(rs) ==
    IF rs = <<>> THEN <<>>
    ELSE InsertDesc(SortedByScore(SubSeq(rs, 1, Len(rs) - 1)), rs[Len(rs)])

(* ------------------------------ the inputs ----------------------------- *)
\* job titles typed by the user (the empty title is the unfilled field)
Titles == {<<>>, Dev}
\* job descriptions typed by the user: "java sql-op java"
Descs == {Java \o Sp \o Sql \o <<"-", "o", "p">> \o Sp \o Java}
\* positions of the "Minimo de correspondencias" slider that are explored
MinMatchesVals == {0, 1, 3, MaxMinMatches}
\* positions of the "Score minimo" slider, 0.0 .. 1.0
MinScoreVals == 0..ScoreOne
FolderPaths == {Folder, Missing}

\* directory listings: files of the catalog, each at most once, in any order
Listings ==
    {l \in UNION {[1..n -> FileIds] : n \in 0..MaxFiles} :
        \A a, b \in 1..Len(l) : a # b => l[a] # l[b]}

\* variant: f.endswith(('.pdf', '.docx')) without lower()
IsValidFileCaseSensitive(name) ==
    \/ EndsWith(name, <<".", "p", "d", "f">>)
    \/ EndsWith(name, <<".", "d", "o", "c", "x">>)

\* f.lower().endswith(('.pdf', '.docx'))
IsValidFile(name) ==
    \/ EndsWith(Lower(name), <<".", "p", "d", "f">>)
    \/ EndsWith(Lower(name), <<".", "d", "o", "c", "x">>)

\* "pdf" if filename.lower().endswith('.pdf') else "docx"
FileType(name) ==
    IF EndsWith(Lower(name), <<".", "p", "d", "f">>) THEN "pdf" ELSE "docx"

(* ------------------------------- state --------------------------------- *)
VARIABLES
    pc,            \* position of main()
    listing,       \* os.listdir(Folder): the files of the folder, in order
    punkt,         \* whether word_tokenize finds its tokenizer data
    model,         \* the global model: "unset", "ok" or "none"
    min_score, min_matches, job_title, job_desc, folder_path, button,
    job_keywords, valid_files, results,
    i,             \* number of loop iterations completed
    text,          \* text of the file of the current iteration
    progress,      \* numerator of the last value given to progress_bar.progress
    messages,      \* st.error / st.warning / st.success calls, in order
    shown,         \* rows of the ranking table that was rendered
    listed,        \* os.listdir has been called
    extracted,     \* files process_file has been called on
    scored         \* files analyze_resume has been called on

vars == <<pc, listing, punkt, model, min_score, min_matches, job_title,
          job_desc, folder_path, button, job_keywords, valid_files, results,
          i, text, progress, messages, shown, listed, extracted, scored>>

inputs == <<min_score, min_matches, job_title, job_desc, folder_path, button>>
loopvars == <<job_keywords, valid_files, results, i, text, progress>>
history == <<listed, extracted, scored>>

Msg(kind, what) == [kind |-> kind, what |-> what]

Init ==
    /\ pc = "start"
    /\ listing \in Listings
    /\ punkt \in BOOLEAN
    /\ model = "unset"
    /\ min_score = 0 /\ min_matches = 0
    /\ job_title = <<>> /\ job_desc = <<>>
    /\ folder_path = "" /\ button = FALSE
    /\ job_keywords = <<>> /\ valid_files = <<>> /\ results = <<>>
    /\ i = 0 /\ text = <<>> /\ progress = 0
    /\ messages = <<>> /\ shown = <<>>
    /\ listed = FALSE /\ extracted = {} /\ scored = {}

\* variant: the off-by-one test  if matches <= min_matches: continue
PassesMatchesStrict(a, minm) == ~(a.matches <= minm)

\* if matches < min_matches: continue   (negated: the file goes on)
PassesMatches(a, minm) == ~(a.matches < minm)

\* variant: the append is not guarded by the score threshold
PassesScoreUnguarded(a, mins) == TRUE

\* if score >= min_score: results.append(...)
PassesScore(a, mins) == a.score >= mins

\* the dict appended to results; Caminho is os.path.join(folder, filename)
ResultEntry(f, folder, t, a) ==
    [Arquivo |-> f.name,
     Caminho |-> <<folder, f.name>>,
     Tipo |-> FileType(f.name),
     Texto |-> t,
     Score |-> a.score,
     Matches |-> a.matches]

\* df[['Arquivo', 'Score', 'Matches']] of the records in rs
Rendered(rs) ==
    [k \in 1..Len(rs) |->
        [Arquivo |-> rs[k].Arquivo, Score |-> rs[k].Score,
         Matches |-> rs[k].Matches]]

\* variant: the handler also renders what was accumulated so far
ExceptHandlerShowsPartial(msgs, rs, sh) ==
    [messages |-> Append(msgs, Msg("error", "Erro durante a analise")),
     shown |-> Rendered(rs)]

\* except Exception as e: st.error(...): what is on screen afterwards
ExceptHandler(msgs, rs, sh) ==
    [messages |-> Append(msgs, Msg("error", "Erro durante a analise")),
     shown |-> sh]

(* ------------------------------ actions -------------------------------- *)
\* load_models() succeeds; main() goes on to read the widgets
LoadModels ==
    /\ pc = "start"
    /\ model' = "ok"
    /\ pc' = "inputs"
    /\ UNCHANGED <<listing, punkt, inputs, loopvars, messages, shown, history>>

\* load_models() catches the exception, shows the error and returns None;
\* main() returns
LoadModelsFails ==
    /\ pc = "start"
    /\ model' = "none"
    /\ messages' = Append(messages, Msg("error", "Falha ao carregar o modelo"))
    /\ pc' = "returned"
    /\ UNCHANGED <<listing, punkt, inputs, loopvars, shown, history>>

\* the sliders, text fields and the button are read
ReadInputs ==
    /\ min_score' \in MinScoreVals
    /\ min_matches' \in MinMatchesVals
    /\ job_title' \in Titles
    /\ job_desc' \in Descs
    /\ folder_path' \in FolderPaths
    /\ button' \in BOOLEAN

\* variant: the condition without os.path.exists(folder_path)
GateOpenNoExists ==
    /\ button /\ job_title # <<>> /\ folder_path # ""

\* if st.button(...) and job_title and folder_path and os.path.exists(...)
GateOpen ==
    /\ button /\ job_title # <<>> /\ folder_path # "" /\ PathExists(folder_path)

\* the widgets are read and the condition holds: the analysis starts
Gate ==
    /\ pc = "inputs"
    /\ ReadInputs
    /\ GateOpen'
    /\ pc' = "prepare"
    /\ UNCHANGED <<listing, punkt, model, loopvars, messages, shown, history>>

\* elif not os.path.exists(folder_path): st.error(...)
GateNoFolder ==
    /\ pc = "inputs"
    /\ ReadInputs
    /\ ~GateOpen'
    /\ ~PathExists(folder_path')
    /\ messages' = Append(messages,
                          Msg("error", "A pasta especificada nao existe!"))
    /\ pc' = "returned"
    /\ UNCHANGED <<listing, punkt, model, loopvars, shown, history>>

\* neither branch: nothing is done in this run
GateIdle ==
    /\ pc = "inputs"
    /\ ReadInputs
    /\ ~GateOpen'
    /\ PathExists(folder_path')
    /\ pc' = "returned"
    /\ UNCHANGED <<listing, punkt, model, loopvars, messages, shown, history>>

\* keywords, results = [], the listing, the no-file exit and st.progress(0)
Prepare ==
    /\ pc = "prepare"
    /\ job_keywords' = JobKeywords(job_title, job_desc)
    /\ results' = <<>>
    /\ valid_files' = SelectSeq(listing, LAMBDA id : IsValidFile(Catalog[id].name))
    /\ listed' = TRUE
    /\ IF valid_files' = <<>>
       THEN /\ messages' = Append(messages,
                   Msg("error", "Nenhum arquivo PDF ou DOCX encontrado na pasta!"))
            /\ pc' = "returned"
       ELSE /\ messages' = messages
            /\ pc' = "extract"
    /\ progress' = 0
    /\ i' = 0
    /\ UNCHANGED <<listing, punkt, model, inputs, text, shown, extracted, scored>>

\* head of one iteration: process_file and the empty-text continue
ProcessFile ==
    /\ pc = "extract"
    /\ i < Len(valid_files)
    /\ LET id == valid_files[i + 1]
           f == Catalog[id]
           r == process_file(f, FileType(f.name), punkt)
       IN  /\ extracted' = extracted \cup {id}
           /\ messages' = IF r.warned
                          THEN Append(messages, Msg("warning", f.name))
                          ELSE messages
           /\ text' = r.text
           /\ IF r.text = <<>>
              THEN /\ i' = i + 1
                   /\ pc' = "extract"
              ELSE /\ i' = i
                   /\ pc' = "analyze"
    /\ UNCHANGED <<listing, punkt, model, inputs, job_keywords, valid_files,
                   results, progress, shown, listed, scored>>

\* rest of the iteration: analyze_resume, the two thresholds, the progress bar
Analyze ==
    /\ pc = "analyze"
    /\ LET id == valid_files[i + 1]
           f == Catalog[id]
           a == analyze_resume(f, text, job_keywords)
       IN  /\ scored' = scored \cup {id}
           /\ IF ~PassesMatches(a, min_matches)
              THEN /\ results' = results
                   /\ progress' = progress
              ELSE /\ results' =
                        IF PassesScore(a, min_score)
                        THEN Append(results, ResultEntry(f, folder_path, text, a))
                        ELSE results
                   /\ progress' = i + 1
    /\ i' = i + 1
    /\ pc' = "extract"
    /\ UNCHANGED <<listing, punkt, model, inputs, job_keywords, valid_files,
                   text, messages, shown, listed, extracted>>

\* model.encode / cos_sim raises: the except of main() shows the error
AnalyzeRaises ==
    /\ pc = "analyze"
    /\ scored' = scored \cup {valid_files[i + 1]}
    /\ messages' = ExceptHandler(messages, results, shown).messages
    /\ shown' = ExceptHandler(messages, results, shown).shown
    /\ pc' = "failed"
    /\ UNCHANGED <<listing, punkt, model, inputs, loopvars, listed, extracted>>

\* after the loop: nothing passed the thresholds
FinishEmpty ==
    /\ pc = "extract"
    /\ i = Len(valid_files)
    /\ results = <<>>
    /\ messages' = Append(messages,
            Msg("warning", "Nenhum curriculo atendeu aos criterios minimos!"))
    /\ pc' = "returned"
    /\ UNCHANGED <<listing, punkt, model, inputs, loopvars, shown, history>>

\* after the loop: sort, success message, histogram and ranking table
Finish ==
    /\ pc = "extract"
    /\ i = Len(valid_files)
    /\ results # <<>>
    /\ results' = SortedByScore(results)
    /\ messages' = Append(messages, Msg("success", Len(results')))
    /\ shown' = Rendered(results')
    /\ pc' = "displayed"
    /\ UNCHANGED <<listing, punkt, model, inputs, job_keywords, valid_files,
                   i, text, progress, history>>

Next ==
    \/ LoadModels
    \/ LoadModelsFails
    \/ Gate
    \/ GateNoFolder
    \/ GateIdle
    \/ Prepare
    \/ ProcessFile
    \/ Analyze
    \/ AnalyzeRaises
    \/ FinishEmpty
    \/ Finish

Spec == Init /\ [][Next]_vars

TypeOK ==
    /\ pc \in {"start", "inputs", "prepare", "extract", "analyze",
               "returned", "failed", "displayed"}
    /\ i \in 0..Len(valid_files)
    /\ progress \in 0..Len(valid_files)

(* ----------------- specification of the keyword builder ---------------- *)
\* characters of the job descriptions explored: letters, blank, punctuation
DescChars == {"a", "B", " ", "-"}

AllDescs == UNION {[1..n -> DescChars] : n \in 0..MaxDescLen}

\* main() stands before line 107 with any short description, or one of Descs
InitKw ==
    /\ pc = "prepare"
    /\ listing = <<1>>
    /\ punkt = TRUE
    /\ model = "ok"
    /\ min_score = 0 /\ min_matches = 0
    /\ job_title = Dev
    /\ job_desc \in AllDescs \cup Descs
    /\ folder_path = Folder /\ button = TRUE
    /\ job_keywords = <<>> /\ valid_files = <<>> /\ results = <<>>
    /\ i = 0 /\ text = <<>> /\ progress = 0
    /\ messages = <<>> /\ shown = <<>>
    /\ listed = FALSE /\ extracted = {} /\ scored = {}

NextKw == Prepare

SpecKw == InitKw /\ [][NextKw]_vars

(* ------------------------- auxiliary definitions ----------------------- *)
\* the catalog file with the given name
IdOf(name) == CHOOSE id \in FileIds : Catalog[id].name = name

\* position of a file in the directory listing
PosInListing(id) == CHOOSE k \in 1..Len(listing) : listing[k] = id

\* the run went through the whole batch and ended without an exception
Completed == listed /\ pc \in {"returned", "displayed"}

\* number of (possibly overlapping) occurrences of kw in s
Occurrences(s, kw) ==
    Cardinality({p \in 0..(Len(s) - Len(kw)) : SubSeq(s, p + 1, p + Len(kw)) = kw})

\* maximal runs of characters satisfying P, as <<first, last>> index pairs
RunPairs(s, P(_)) ==
    {pr \in (1..Len(s)) \X (1..Len(s)) :
        /\ pr[1] <= pr[2]
        /\ \A k \in pr[1]..pr[2] : P(s[k])
        /\ (pr[1] = 1 \/ ~P(s[pr[1] - 1]))
        /\ (pr[2] = Len(s) \/ ~P(s[pr[2] + 1]))}

\* the runs of a set of index pairs, in order of occurrence
RECURSIVE RunsInOrder(_, _)
RunsInOrder(s, prs) ==
    IF prs = {} THEN <<>>
    ELSE LET first == CHOOSE pr \in prs : \A q \in prs : pr[1] <= q[1]
         IN  <<SubSeq(s, first[1], first[2])>> \o RunsInOrder(s, prs \ {first})

NotSpace(c) == ~IsSpace(c)

\* the whitespace-delimited tokens of s
WhitespaceTokens(s) == RunsInOrder(s, RunPairs(s, NotSpace))

\* the maximal runs of word characters of s
WordRuns(s) == RunsInOrder(s, RunPairs(s, IsWord))

LongEnough(w) == Len(w) >= MinWordLen

\* every page / paragraph is None or consists of whitespace only
AllBlank(parts) ==
    \A k \in 1..Len(parts) :
        parts[k].none \/ \A c \in 1..Len(parts[k].text) : IsSpace(parts[k].text[c])

\* the document gives process_file nothing: it cannot be read, or the
\* tokenizer raises, or its content is empty or whitespace
EmptyExtraction(id) ==
    Catalog[id].broken \/ ~punkt \/ AllBlank(Catalog[id].parts)

\* process_file runs its except branch on the file
Raises(id) ==
    \/ Catalog[id].broken
    \/ ~punkt /\ RawText(Catalog[id], FileType(Catalog[id].name)) # <<>>

NotRaising(id) == ~Raises(id)

\* the entries a loop over the files ids builds when nothing raises
RECURSIVE Accumulated(_)
Accumulated(ids) ==
    IF ids = <<>> THEN <<>>
    ELSE LET prev == Accumulated(SubSeq(ids, 1, Len(ids) - 1))
             f == Catalog[ids[Len(ids)]]
             t == process_file(f, FileType(f.name), punkt).text
             a == analyze_resume(f, t, job_keywords)
         IN  IF t # <<>> /\ a.matches >= min_matches /\ a.score >= min_score
             THEN Append(prev, ResultEntry(f, folder_path, t, a))
             ELSE prev

\* the file passes every test of the ranking
Qualifies(id) ==
    LET f == Catalog[id]
        t == process_file(f, FileType(f.name), punkt).text
    IN  /\ \E suf \in {<<".", "p", "d", "f">>, <<".", "d", "o", "c", "x">>} :
              EndsWith(Lower(f.name), suf)
        /\ t # <<>>
        /\ Matches(t, JobKeywords(job_title, job_desc)) >= min_matches
        /\ f.score >= min_score

Listed == {listing[k] : k \in 1..Len(listing)}

(* =============================== claims ================================ *)

\* C1: at every point of the batch loop and in the final list, every entry
\* of the result list has Matches >= min_matches and Score >= min_score.
C1_ThresholdsHold ==
    /\ \A k \in 1..Len(results) :
          results[k].Matches >= min_matches /\ results[k].Score >= min_score
    /\ \A k \in 1..Len(shown) :
          shown[k].Matches >= min_matches /\ shown[k].Score >= min_score

\* in the middle of the loop, with both thresholds set, an entry was kept
\* and a scored file was dropped
C1_Witness ==
    /\ pc = "extract" /\ i < Len(valid_files)
    /\ min_matches >= 1 /\ min_score >= 1
    /\ results # <<>>
    /\ Cardinality(scored) > Len(results)

\* C2: the displayed list is ordered by Score descending, and entries with
\* equal Score appear in the order of their files in the directory listing.
C2_SortedStable ==
    pc = "displayed" =>
        /\ shown = Rendered(results) /\ shown # <<>>
        /\ \A a, b \in 1..Len(shown) :
              a < b =>
                /\ shown[a].Score >= shown[b].Score
                /\ shown[a].Score = shown[b].Score =>
                      PosInListing(IdOf(shown[a].Arquivo))
                          < PosInListing(IdOf(shown[b].Arquivo))

\* three entries, two of them tied, and the sort moved the first file down
C2_Witness ==
    /\ pc = "displayed" /\ Len(shown) >= 3
    /\ \E a, b \in 1..Len(shown) : a # b /\ shown[a].Score = shown[b].Score
    /\ IdOf(shown[Len(shown)].Arquivo) = valid_files[1]

\* C3: a document whose extraction yields empty text is never scored and
\* never appears in the result list, whatever the thresholds.
C3_EmptyNeverScored ==
    \A id \in FileIds :
        EmptyExtraction(id) =>
            /\ id \notin scored
            /\ \A k \in 1..Len(results) : results[k].Arquivo # Catalog[id].name
            /\ \A k \in 1..Len(shown) : shown[k].Arquivo # Catalog[id].name

\* a blank document went through the loop with both thresholds at zero
C3_Witness ==
    /\ pc = "displayed" /\ min_matches = 0 /\ min_score = 0
    /\ \E id \in extracted : EmptyExtraction(id) /\ ~Catalog[id].broken

\* C4 (as stated): after every file of the loop, skipped ones included, the
\* reported progress is (files processed so far) / (total qualifying files).
C4_ProgressAfterEveryFile ==
    (listed /\ pc = "extract") => progress = i

\* the scenario of C5: one PDF and no DOCX, the title occurs 3 times in the
\* extracted text, min_matches = 1, min_score = 0.0, score non-negative
C5_Scenario ==
    /\ Completed
    /\ Len(valid_files) = 1
    /\ FileType(Catalog[valid_files[1]].name) = "pdf"
    /\ Occurrences(process_file(Catalog[valid_files[1]], "pdf", punkt).text,
                   job_title) = 3
    /\ min_matches = 1 /\ min_score = 0
    /\ Catalog[valid_files[1]].score >= 0

\* C5 (as stated): in the scenario the result list has exactly one entry
\* and that entry's match_count is >= 3.
C5_Original ==
    C5_Scenario => Len(results) = 1 /\ results[1].Matches >= 3

\* C5 (amended): in the scenario the result list has exactly one entry, the
\* PDF, and its match_count is >= 1: the title counts once however often it
\* occurs.
C5_OneEntryMatchesAtLeastOne ==
    C5_Scenario =>
        /\ pc = "displayed"
        /\ Len(results) = 1
        /\ results[1].Arquivo = Catalog[valid_files[1]].name
        /\ results[1].Matches >= 1
        /\ shown = Rendered(results)

C5_Witness == C5_Scenario /\ pc = "displayed" /\ results[1].Matches = 1

\* C6: a failure while extracting one document is recovered locally: the
\* document is skipped with a warning, the loop continues, and the entries
\* are those of the listing without the failing files.
C6_ExtractionFailureIsLocal ==
    /\ pc \in {"extract", "analyze"} =>
          results = Accumulated(SelectSeq(SubSeq(valid_files, 1, i), NotRaising))
    /\ Completed =>
          /\ results =
                SortedByScore(Accumulated(SelectSeq(valid_files, NotRaising)))
          /\ \A k \in 1..Len(valid_files) :
                /\ valid_files[k] \in extracted
                /\ Raises(valid_files[k]) =>
                      \E m \in 1..Len(messages) :
                          messages[m] = Msg("warning", Catalog[valid_files[k]].name)
                /\ ~EmptyExtraction(valid_files[k]) => valid_files[k] \in scored

\* a file raised in process_file and the file after it was scored and ranked
C6_Witness ==
    /\ pc = "displayed"
    /\ \E k \in 1..(Len(valid_files) - 1) :
          /\ Raises(valid_files[k])
          /\ valid_files[k + 1] \in scored
          /\ \E m \in 1..Len(results) :
                results[m].Arquivo = Catalog[valid_files[k + 1]].name

\* C7: if the model failed to load or the folder does not exist, nothing is
\* listed, extracted or scored in the run, and the error is shown.
C7_PreBatchAbort ==
    /\ model = "none" =>
          /\ ~listed /\ extracted = {} /\ scored = {} /\ shown = <<>>
          /\ pc = "returned"
          /\ messages = <<Msg("error", "Falha ao carregar o modelo")>>
    /\ (pc \notin {"start", "inputs"} /\ model = "ok"
            /\ ~PathExists(folder_path)) =>
          /\ ~listed /\ extracted = {} /\ scored = {} /\ shown = <<>>
          /\ pc = "returned"
          /\ messages = <<Msg("error", "A pasta especificada nao existe!")>>

\* the button was pressed with a title and a folder that does not exist
C7_Witness ==
    /\ pc = "returned" /\ button /\ job_title # <<>> /\ folder_path = Missing
    /\ listing # <<>>

\* C8: an exception raised by the scoring call during the batch loop aborts
\* the run with a visible error; the accumulated entries are not displayed.
C8_AbortDiscardsPartial ==
    pc = "failed" =>
        /\ shown = <<>>
        /\ \A m \in 1..Len(messages) : messages[m].kind # "success"
        /\ messages[Len(messages)] = Msg("error", "Erro durante a analise")

\* the scoring call raised on a later file, after entries had been kept
C8_Witness == pc = "failed" /\ Len(results) >= 2

\* C9 (as stated): the keywords are the title followed by the
\* whitespace-delimited tokens of the description of length >= 4.
C9_Original ==
    pc # "prepare" =>
        job_keywords =
            <<job_title>> \o SelectSeq(WhitespaceTokens(job_desc), LongEnough)

\* C9 (amended): the keywords are the title followed by the maximal runs of
\* word characters of the description that have length >= 4, in order, case
\* preserved, duplicates retained; shorter runs contribute nothing.
C9_TitleThenLongWordRuns ==
    pc # "prepare" =>
        job_keywords = <<job_title>> \o SelectSeq(WordRuns(job_desc), LongEnough)

\* a description with punctuation that yields the same keyword twice
C9_Witness ==
    /\ pc # "prepare"
    /\ Len(job_keywords) = 3 /\ job_keywords[2] = job_keywords[3]
    /\ \E k \in 1..Len(job_desc) : job_desc[k] = "-"

\* C10: when the run finishes without an exception, the result list has
\* exactly one entry for each listed .pdf/.docx file with non-empty text,
\* match count >= min_matches and score >= min_score, and no other entry.
C10_Complete ==
    Completed =>
        /\ Len(results) = Cardinality({id \in Listed : Qualifies(id)})
        /\ \A id \in Listed :
              Qualifies(id) <=>
                  \E k \in 1..Len(results) : results[k].Arquivo = Catalog[id].name
        /\ \A k \in 1..Len(results) :
              /\ results[k].Score = Catalog[IdOf(results[k].Arquivo)].score
              /\ results[k].Matches =
                    Matches(results[k].Texto, JobKeywords(job_title, job_desc))
              /\ IdOf(results[k].Arquivo) \in Listed

\* the listing held an unsupported file, an upper-case extension was kept
\* and a scored file was dropped
C10_Witness ==
    /\ pc = "displayed"
    /\ Len(valid_files) < Len(listing)
    /\ Len(results) < Len(valid_files)
    /\ \E k \in 1..Len(results) : results[k].Arquivo # Lower(results[k].Arquivo)

====
